---- MODULE Spec2Model ----
(***************************************************************************)
(* plugin-evm: the two WalletProvider classes, BalancesProvider,           *)
(* TransferAction, SwapAction, BridgeAction and the three action handlers, *)
(* as a state machine.                                                     *)
(*                                                                         *)
(* Every async function is modelled at the granularity of its awaits: one  *)
(* step runs the synchronous code from the resumption of an await up to    *)
(* the next await.  An awaited network request (wallet client, public      *)
(* client, aggregator) is answered by the environment with any outcome it  *)
(* can produce; an awaited call of one of the plugin's own async           *)
(* functions settles a promise, and the caller resumes in a later step.    *)
(***************************************************************************)
EXTENDS Integers, Sequences, FiniteSets, TLC

VARIABLES currentChain, walletClient, task, overlap

vars == <<currentChain, walletClient, task, overlap>>

(* ------------------------------ bounds ---------------------------------- *)

\* largest native balance (in wei) an RPC balance read answers
MaxBalance == 2
\* largest number of routes the aggregator answers
MaxRoutes == 2
\* largest gas estimate an RPC gas estimation answers
MaxGas == 1
\* largest token balance (in the token's smallest unit) a balance read answers
MaxTokenBalance == 1

(* --------------------------- static tables ------------------------------ *)

Chains == {"ethereum", "base"}

\* wallet.ts CHAIN_CONFIGS: the chain ids of the two supported chains
CHAIN_CONFIGS == [ethereum |-> [chainId |-> 1, name |-> "Ethereum"],
                  base |-> [chainId |-> 8453, name |-> "Base"]]

\* the error code on which switchChain adds the chain and retries
ChainUnknown == 4902

\* the error codes the signing client answers in the model: chain unknown,
\* and the user rejecting the request
SwitchErrorCodes == {ChainUnknown, 4001}

\* the tasks (async call chains) of the event loop
Tasks == {"t1", "t2"}

\* WalletProvider instances: one shared by the class-level calls, the one
\* each handler invocation constructs for itself (named by its task), and
\* one of the browser-wallet class, whose signing client connect() attaches
Provs == {"shared", "browser"} \cup Tasks

\* the signing account's address, a transaction hash, a destination address
Address == "0xACC0"
Hashes == {"0xh1"}
NativeToken == "0x0000000000000000000000000000000000000000"

(* ------------------------- values and errors ---------------------------- *)

Error(msg) == [msg |-> msg, code |-> 0]
RpcError(code) == [msg |-> "rpc error", code |-> code]
NoError == Error("")

Void == [kind |-> "undefined"]
Null == [kind |-> "null"]
False == [kind |-> "false"]
Str(s) == [kind |-> "string", s |-> s]
BigInt(n) == [kind |-> "bigint", n |-> n]

\* what the environment answers to a request: a value or an error
Ok(v) == [ok |-> TRUE, val |-> v]
Fail(e) == [ok |-> FALSE, err |-> e]

(* viem formatUnits(value, 18) for 0 <= value < 10^18: "0" for zero,     *)
(* otherwise "0." followed by the 18-digit fraction without its trailing   *)
(* zeros.                                                                  *)
RECURSIVE NumDigits(_)
NumDigits(n) == IF n < 10 THEN 1 ELSE 1 + NumDigits(n \div 10)

RECURSIVE Zeros(_)
Zeros(k) == IF k <= 0 THEN "" ELSE "0" \o Zeros(k - 1)

RECURSIVE StripTrailingZeros(_)
StripTrailingZeros(fw) ==
  IF fw.frac % 10 = 0 /\ fw.frac > 0
  THEN StripTrailingZeros([frac |-> fw.frac \div 10, width |-> fw.width - 1])
  ELSE fw

formatUnits(value) ==
  IF value = 0 THEN "0"
  ELSE LET s == StripTrailingZeros([frac |-> value, width |-> 18])
       IN "0." \o Zeros(s.width - NumDigits(s.frac)) \o ToString(s.frac)

RECURSIVE Pow10(_)
Pow10(k) == IF k <= 0 THEN 1 ELSE 10 * Pow10(k - 1)

\* the decimal strings the model passes as amounts: integer part, fraction
\* (as a number) and the number of digits of the fraction
Amounts == {"1", "0.5", "1.250"}

Decimal(amount) ==
  CASE amount = "1" -> [int |-> 1, frac |-> 0, digits |-> 0]
    [] amount = "0.5" -> [int |-> 0, frac |-> 5, digits |-> 1]
    [] amount = "1.250" -> [int |-> 1, frac |-> 250, digits |-> 3]

(* viem parseEther(amount) = parseUnits(amount, 18) for a decimal string   *)
(* with at most 18 fraction digits: the trailing zeros of the fraction are *)
(* dropped, the fraction is padded with zeros to 18 digits and the digits  *)
(* of integer part and fraction are read as one integer. The wei value is  *)
(* kept as mant * 10^exp, the padding zeros being exp.                     *)
parseEther(amount) ==
  LET d == Decimal(amount)
      s == IF d.frac = 0 THEN [frac |-> 0, width |-> 0]
           ELSE StripTrailingZeros([frac |-> d.frac, width |-> d.digits])
  IN [kind |-> "bigint", mant |-> d.int * Pow10(s.width) + s.frac, exp |-> 18 - s.width]

\* String.prototype.toLowerCase on the chain names the model uses
toLowerCase(s) == IF s = "BASE" THEN "base" ELSE IF s = "ETHEREUM" THEN "ethereum" ELSE s

(* ------------------------------ tasks ----------------------------------- *)

NoArgs == [chain |-> "none", toChain |-> "none", fromToken |-> "", toToken |-> "",
           callback |-> FALSE, key |-> "valid", hash |-> "0xh1",
           toAddress |-> "0xD0", amount |-> "1", data |-> "undefined"]

IdleTask == [op |-> "none", pc |-> "idle", prov |-> "shared", stack |-> <<>>,
             fn |-> "none", args |-> NoArgs,
             swTarget |-> "none", swClient |-> "none", swCodes |-> <<>>,
             client |-> "none", targetChain |-> "none",
             routes |-> <<>>, tool |-> "none", execution |-> Void, tx |-> Void,
             sent |-> Void, routeReq |-> Void,
             walletStatus |-> Void, walletBalance |-> Void, balance |-> Void,
             gasEstimate |-> Void, connected |-> FALSE, wb |-> <<>>,
             pending |-> [thrown |-> FALSE, val |-> Void],
             net |-> <<>>, ans |-> <<>>, last |-> Void, cbs |-> <<>>, raised |-> <<>>,
             outcome |-> "none", retval |-> Void]

InFlight(tk) == tk.pc \notin {"idle", "done"}

\* the context a step of task t runs in: its locals and its provider's fields
Ctx(t) == [tk |-> task[t],
           cc |-> currentChain[task[t].prov],
           wc |-> walletClient[task[t].prov]]

\* a call by the host of operation op on provider p starts from fresh locals
Begin(t, op, p, args) ==
  [tk |-> [IdleTask EXCEPT !.op = op, !.prov = p, !.args = args],
   cc |-> currentChain[p],
   wc |-> walletClient[p]]

\* the step's effect on the state; overlap[u] records that another task ran a
\* step while u's operation was in flight
Commit(t, c) ==
  /\ task' = [task EXCEPT ![t] = c.tk]
  /\ currentChain' = [currentChain EXCEPT ![c.tk.prov] = c.cc]
  /\ walletClient' = [walletClient EXCEPT ![c.tk.prov] = c.wc]
  /\ overlap' = [u \in Tasks |->
                   IF u = t THEN (InFlight(task[t]) /\ overlap[t])
                   ELSE overlap[u] \/ InFlight(task[u])]

\* issuing a request and suspending at the await labelled pc; the log entry
\* keeps the client the request goes through and currentChain at that moment
Issue(c, pc, rq, via, arg) ==
  [c EXCEPT !.tk.pc = pc,
            !.tk.net = Append(@, [rq |-> rq, via |-> via, arg |-> arg, cur |-> c.cc])]

\* the promise of the running async function settles: the host sees the
\* outcome of a top-level call, an awaiting caller is resumed in a later step
Settle(c, thrown, v) ==
  IF c.tk.stack = <<>>
  THEN [c EXCEPT !.tk.pc = "done",
                 !.tk.outcome = IF thrown THEN "threw" ELSE "returned",
                 !.tk.retval = v]
  ELSE [c EXCEPT !.tk.pc = "await", !.tk.pending = [thrown |-> thrown, val |-> v]]

Return(c, v) == Settle(c, FALSE, v)
Throw(c, e) == Settle(c, TRUE, e)

\* the answer r to the pending request arrives (ans keeps which requests
\* succeeded, last the latest answer)
Answered(c, r) == [c EXCEPT !.tk.ans = Append(@, r.ok), !.tk.last = r]

\* calling an async function from the call site `site` of the caller
Push(c, site) == [c EXCEPT !.tk.stack = <<site>> \o @]
Pop(c) == [c EXCEPT !.tk.stack = Tail(@), !.tk.pending = [thrown |-> FALSE, val |-> Void]]

(* --------------------------- WalletProvider ----------------------------- *)

\* constructor: clients for every chain are created, currentChain is 'ethereum'
NewWalletProvider(c) ==
  [c EXCEPT !.cc = "ethereum", !.wc = [ch \in Chains |-> TRUE]]

\* the constructor throws when the key is absent or not a private key
ConstructorError(key) ==
  IF key = "absent" THEN Error("EVM_PRIVATE_KEY not configured")
  ELSE Error("invalid private key")

\* switchChain assigning currentChain before the request is answered
switchChain_assignFirst(c, chain) ==
  IF ~c.wc[c.cc] THEN Throw(c, Error("Wallet not connected"))
  ELSE Issue([c EXCEPT !.cc = chain, !.tk.swTarget = chain, !.tk.swClient = c.cc,
                       !.tk.swCodes = <<>>],
             "switchChain.switch", "wallet_switchEthereumChain", c.cc,
             CHAIN_CONFIGS[chain].chainId)

\* switchChain, up to its first await
switchChain(c, chain) ==
  IF ~c.wc[c.cc] THEN Throw(c, Error("Wallet not connected"))
  ELSE Issue([c EXCEPT !.tk.swTarget = chain, !.tk.swClient = c.cc, !.tk.swCodes = <<>>],
             "switchChain.switch", "wallet_switchEthereumChain", c.cc,
             CHAIN_CONFIGS[chain].chainId)

\* switchChain adding the chain after any failure of the first switch request
switchChain_switch_anyError(c, code) ==
  LET c1 == [c EXCEPT !.tk.swCodes = Append(@, code)] IN
  IF code = 0 THEN Return([c1 EXCEPT !.cc = c.tk.swTarget], Void)
  ELSE Issue(c1, "switchChain.addChain", "wallet_addEthereumChain", c.tk.swClient,
             CHAIN_CONFIGS[c.tk.swTarget].chainId)

\* switchChain resumed with the answer (0: success, else the error's code)
\* to the first switch request
switchChain_switch(c, code) ==
  LET c1 == [c EXCEPT !.tk.swCodes = Append(@, code)] IN
  IF code = 0 THEN Return([c1 EXCEPT !.cc = c.tk.swTarget], Void)
  ELSE IF code = ChainUnknown
       THEN Issue(c1, "switchChain.addChain", "wallet_addEthereumChain", c.tk.swClient,
                  CHAIN_CONFIGS[c.tk.swTarget].chainId)
       ELSE Throw(c1, RpcError(code))

\* switchChain resumed with the answer to the add-chain request
switchChain_addChain(c, code) ==
  LET c1 == [c EXCEPT !.tk.swCodes = Append(@, code)] IN
  IF code = 0
  THEN Issue(c1, "switchChain.retry", "wallet_switchEthereumChain", c.tk.swClient,
             CHAIN_CONFIGS[c.tk.swTarget].chainId)
  ELSE Throw(c1, RpcError(code))

\* switchChain leaving currentChain as it was after the retried switch
switchChain_retry_noAssign(c, code) ==
  LET c1 == [c EXCEPT !.tk.swCodes = Append(@, code)] IN
  IF code = 0 THEN Return(c1, Void)
  ELSE Throw(c1, RpcError(code))

\* switchChain resumed with the answer to the retried switch request
switchChain_retry(c, code) ==
  LET c1 == [c EXCEPT !.tk.swCodes = Append(@, code)] IN
  IF code = 0 THEN Return([c1 EXCEPT !.cc = c.tk.swTarget], Void)
  ELSE Throw(c1, RpcError(code))

\* getWalletBalance, up to its await: the balance of the current chain
getWalletBalance(c) ==
  IF ~c.wc[c.cc] THEN Throw(c, Error("Wallet not connected"))
  ELSE Issue(c, "getWalletBalance.getBalance", "eth_getBalance", c.cc, 0)

getWalletBalance_getBalance(c, r) ==
  IF r.ok THEN Return(c, Str(formatUnits(r.val))) ELSE Throw(c, r.err)

\* getWalletStatus awaits getWalletBalance inside a try
getWalletStatus(c) == getWalletBalance(Push(c, "getWalletStatus.getWalletBalance"))

\* getWalletStatus letting the failure of the balance computation escape
getWalletStatus_resume_rethrow(c, p) ==
  IF p.thrown THEN Throw(c, p.val)
  ELSE Return(c, [kind |-> "WalletStatus", isConnected |-> TRUE,
                  balance |-> IF p.val.s = "" THEN "0" ELSE p.val.s,
                  address |-> Address, chain |-> c.cc])

\* resumed with the balance or its failure: the connected or the degraded status
getWalletStatus_resume(c, p) ==
  IF p.thrown
  THEN Return(c, [kind |-> "WalletStatus", isConnected |-> FALSE, balance |-> "0",
                  address |-> "null"])
  ELSE Return(c, [kind |-> "WalletStatus", isConnected |-> TRUE,
                  balance |-> IF p.val.s = "" THEN "0" ELSE p.val.s,
                  address |-> Address, chain |-> c.cc])

(* --------------------------- TransferAction ----------------------------- *)

\* transfer, up to its first await: the signing client is taken from the
\* provider here, before the chain switch, and kept in a local
transfer(c) ==
  IF ~c.wc[c.cc] THEN Throw(c, Error("Wallet not connected"))
  ELSE Issue([c EXCEPT !.tk.client = c.cc], "transfer.getAddresses", "eth_accounts", c.cc, 0)

\* resumed with the addresses: await switchChain(params.fromChain)
transfer_getAddresses(c, r) ==
  IF r.ok THEN switchChain(Push(c, "transfer.switchChain"), c.tk.args.chain)
  ELSE Throw(c, r.err)

\* transfer sending although the chain switch was rejected
transfer_resume_sendsAnyway(c, p) ==
  Issue(c, "transfer.sendTransaction", "eth_sendTransaction", c.tk.client, 0)

\* resumed after switchChain: a rejection propagates (the await is outside
\* the try), otherwise the transaction is sent through the local client
transfer_resume(c, p) ==
  IF p.thrown THEN Throw(c, p.val)
  ELSE Issue([c EXCEPT !.tk.sent = [account |-> Address, to |-> c.tk.args.toAddress,
                                    value |-> parseEther(c.tk.args.amount),
                                    data |-> c.tk.args.data]],
             "transfer.sendTransaction", "eth_sendTransaction", c.tk.client, 0)

\* transfer returning the amount as it was passed, not converted to wei
transfer_sendTransaction_rawAmount(c, r) ==
  IF r.ok
  THEN Return(c, [kind |-> "Transaction", hash |-> r.val, from |-> Address,
                  to |-> c.tk.args.toAddress,
                  value |-> [kind |-> "bigint", mant |-> Decimal(c.tk.args.amount).int,
                             exp |-> 0],
                  data |-> c.tk.args.data])
  ELSE Throw(c, Error("Transfer failed: " \o r.err.msg))

\* resumed with the answer to the send: the Transaction repeats the
\* parameters of the send
transfer_sendTransaction(c, r) ==
  IF r.ok
  THEN Return(c, [kind |-> "Transaction", hash |-> r.val, from |-> Address,
                  to |-> c.tk.args.toAddress, value |-> parseEther(c.tk.args.amount),
                  data |-> c.tk.args.data])
  ELSE Throw(c, Error("Transfer failed: " \o r.err.msg))

\* transferAction.handler: new WalletProvider(runtime), then returns the
\* promise of transfer(options); there is no try around either
transferHandler(c) ==
  IF c.tk.args.key # "valid" THEN Throw(c, ConstructorError(c.tk.args.key))
  ELSE transfer(Push(NewWalletProvider(c), "transferHandler.transfer"))

transferHandler_resume(c, p) == Settle(c, p.thrown, p.val)

(* ----------------------- SwapAction / BridgeAction ---------------------- *)

\* execution.steps[0]?.execution?.process[0]
FirstProcess(execution) ==
  IF execution.steps = <<>> THEN Void
  ELSE IF ~execution.steps[1].hasExecution THEN Void
  ELSE IF execution.steps[1].process = <<>> THEN Void
  ELSE execution.steps[1].process[1]

\* !process?.status || process.status === 'FAILED'
ProcessFailed(process) ==
  \/ process = Void
  \/ process.status = ""
  \/ process.status = "FAILED"

\* the route request without the default of the destination address
RouteRequest_noDefault(tk, fromAddress) ==
  [fromChainId |-> CHAIN_CONFIGS[tk.args.chain].chainId,
   toChainId |-> CHAIN_CONFIGS[IF tk.fn = "bridge" THEN tk.args.toChain
                               ELSE tk.args.chain].chainId,
   fromAddress |-> fromAddress,
   toAddress |-> IF tk.fn = "bridge" THEN tk.args.toAddress ELSE "undefined"]

\* the parameter of getRoutes: SwapAction asks for a route within
\* params.chain and names no destination address, BridgeAction asks for one
\* from params.fromChain to params.toChain with the destination
\* params.toAddress || fromAddress
RouteRequest(tk, fromAddress) ==
  [fromChainId |-> CHAIN_CONFIGS[tk.args.chain].chainId,
   toChainId |-> CHAIN_CONFIGS[IF tk.fn = "bridge" THEN tk.args.toChain
                               ELSE tk.args.chain].chainId,
   fromAddress |-> fromAddress,
   toAddress |-> IF tk.fn # "bridge" THEN "undefined"
                 ELSE IF tk.args.toAddress = "" THEN fromAddress
                 ELSE tk.args.toAddress]

\* getTransactionStatus(hash, chain), up to its await
getTransactionStatus(c, chain) ==
  Issue(c, "getTransactionStatus.getTransactionReceipt", "eth_getTransactionReceipt", chain, 0)

\* getTransactionStatus treating the absent receipt as an error
getTransactionStatus_receipt_absentThrows(c, r) ==
  IF ~r.ok THEN Throw(c, r.err)
  ELSE IF r.val = "null" THEN Throw(c, Error("receipt not found"))
  ELSE Return(c, Str(IF r.val = "success" THEN "success" ELSE "failed"))

\* resumed with the receipt: !receipt is 'pending', otherwise by its status
getTransactionStatus_receipt(c, r) ==
  IF ~r.ok THEN Throw(c, r.err)
  ELSE IF r.val = "null" THEN Return(c, Str("pending"))
  ELSE Return(c, Str(IF r.val = "success" THEN "success" ELSE "failed"))

\* estimateGas of SwapAction (fn = "swap", chain = params.chain) and of
\* BridgeAction (fn = "bridge", chain = params.fromChain): the whole body is
\* inside try { } catch { return null }
estimateGas(c) ==
  IF ~c.wc[c.cc] THEN Return(c, Null)
  ELSE Issue(c, "estimateGas.getAddresses", "eth_accounts", c.cc, 0)

\* getPublicClient(chain) and CHAIN_CONFIGS[chain].chainId throw a TypeError
\* for a chain that is not a key of the tables
estimateGas_getAddresses(c, r) ==
  IF ~r.ok THEN Return(c, Null)
  ELSE IF c.tk.args.chain \notin Chains \/ (c.tk.fn = "bridge" /\ c.tk.args.toChain \notin Chains)
       THEN Return(c, Null)
       ELSE Issue([c EXCEPT !.tk.routeReq = RouteRequest(c.tk, r.val)],
                  "estimateGas.getRoutes", "getRoutes", "lifi", 0)

estimateGas_getRoutes(c, r) ==
  IF ~r.ok THEN Return(c, Null)
  ELSE LET c1 == [c EXCEPT !.tk.routes = r.val.routes, !.tk.tool = r.val.tool] IN
       IF Len(r.val.routes) = 0 THEN Return(c1, Null)
       ELSE Issue(c1, "estimateGas.estimateGas", "eth_estimateGas", c.tk.args.chain, 0)

\* estimateGas letting a failed gas estimation escape
estimateGas_estimateGas_throws(c, r) ==
  IF r.ok THEN Return(c, BigInt(r.val)) ELSE Throw(c, r.err)

estimateGas_estimateGas(c, r) ==
  IF r.ok THEN Return(c, BigInt(r.val)) ELSE Return(c, Null)

\* swap of SwapAction and bridge of BridgeAction, up to the first await
swap(c) ==
  IF ~c.wc[c.cc] THEN Throw(c, Error("Wallet not connected"))
  ELSE Issue(c, c.tk.fn \o ".getAddresses", "eth_accounts", c.cc, 0)

swap_getAddresses(c, r) ==
  IF ~r.ok THEN Throw(c, r.err)
  ELSE IF c.tk.args.chain \notin Chains \/ (c.tk.fn = "bridge" /\ c.tk.args.toChain \notin Chains)
       THEN Throw(c, Error("TypeError: Cannot read properties of undefined"))
       ELSE Issue([c EXCEPT !.tk.routeReq = RouteRequest(c.tk, r.val)],
                  c.tk.fn \o ".getRoutes", "getRoutes", "lifi", 0)

\* swap executing the last route of the list instead of the first
swap_getRoutes_lastRoute(c, r) ==
  IF ~r.ok THEN Throw(c, r.err)
  ELSE LET c1 == [c EXCEPT !.tk.routes = r.val.routes, !.tk.tool = r.val.tool] IN
       IF Len(r.val.routes) = 0 THEN Throw(c1, Error("No routes found"))
       ELSE Issue(c1, c.tk.fn \o ".executeRoute", "executeRoute", "lifi",
                  r.val.routes[Len(r.val.routes)])

\* routes.routes[0] is handed to executeRoute
swap_getRoutes(c, r) ==
  IF ~r.ok THEN Throw(c, r.err)
  ELSE LET c1 == [c EXCEPT !.tk.routes = r.val.routes, !.tk.tool = r.val.tool] IN
       IF Len(r.val.routes) = 0 THEN Throw(c1, Error("No routes found"))
       ELSE Issue(c1, c.tk.fn \o ".executeRoute", "executeRoute", "lifi", r.val.routes[1])

swap_executeRoute(c, r) ==
  IF ~r.ok THEN Throw(c, r.err)
  ELSE LET process == FirstProcess(r.val)
           c1 == [c EXCEPT !.tk.execution = r.val] IN
       IF ProcessFailed(process) THEN Throw(c1, Error("Transaction failed"))
       ELSE Return(c1, [kind |-> "Transaction", hash |-> process.txHash, from |-> Address,
                       chainId |-> CHAIN_CONFIGS[c.tk.args.chain].chainId,
                       route |-> c.tk.routes[1]])

\* bridgeAction.handler: new WalletProvider(runtime), then returns the
\* promise of bridge(options); there is no try around either
bridgeHandler(c) ==
  IF c.tk.args.key # "valid" THEN Throw(c, ConstructorError(c.tk.args.key))
  ELSE swap(Push(NewWalletProvider(c), "bridgeHandler.bridge"))

bridgeHandler_resume(c, p) == Settle(c, p.thrown, p.val)

(* ------------------------- swapAction.handler --------------------------- *)

\* a catch block that reports the error and throws it again
swapHandler_catch_rethrow(c, e) ==
  Throw([c EXCEPT !.tk.cbs = IF c.tk.args.callback
                              THEN Append(@, [text |-> "Swap failed: " \o e.msg,
                                              error |-> e.msg, status |-> "error"])
                              ELSE @],
        e)

\* catch (error): the callback, when there is one, gets the error payload;
\* the handler returns false
swapHandler_catch(c, e) ==
  Return([c EXCEPT !.tk.cbs = IF c.tk.args.callback
                               THEN Append(@, [text |-> "Swap failed: " \o e.msg,
                                               error |-> e.msg, status |-> "error"])
                               ELSE @],
         False)

\* an error raised inside the handler's try block (raised keeps its history)
swapHandler_throw(c, e) ==
  swapHandler_catch([c EXCEPT !.tk.raised = Append(@, e.msg)], e)

\* the handler up to its first await: new WalletProvider, getWalletStatus()
swapHandler(c) ==
  IF c.tk.args.key # "valid" THEN swapHandler_throw(c, ConstructorError(c.tk.args.key))
  ELSE getWalletStatus(Push(NewWalletProvider(c), "swapHandler.getWalletStatus"))

\* resumed with the wallet status
swapHandler_getWalletStatus(c, p) ==
  IF p.thrown THEN swapHandler_throw(c, p.val)
  ELSE LET c1 == [c EXCEPT !.tk.walletStatus = p.val] IN
       IF ~p.val.isConnected THEN swapHandler_throw(c1, Error("EVM wallet not connected"))
       ELSE getWalletBalance(Push(c1, "swapHandler.getWalletBalance"))

\* after the chain switch (or when none is needed): the balance is read again
swapHandler_switched(c) == getWalletBalance(Push(c, "swapHandler.getWalletBalance2"))

\* the handler switching chains without comparing with the current chain
swapHandler_getWalletBalance_alwaysSwitch(c, p) ==
  IF p.thrown THEN swapHandler_throw(c, p.val)
  ELSE IF p.val.s \in {"", "0"} THEN swapHandler_throw(c, Error("EVM wallet has zero balance"))
  ELSE IF c.tk.args.fromToken = "" \/ c.tk.args.toToken = ""
       THEN swapHandler_throw(c, Error("Invalid token addresses provided"))
  ELSE LET targetChain == IF c.tk.args.chain = "none" THEN "base"
                          ELSE toLowerCase(c.tk.args.chain)
           c1 == [c EXCEPT !.tk.targetChain = targetChain]
       IN switchChain(Push(c1, "swapHandler.switchChain"), targetChain)

\* resumed with the wallet balance: zero check, token check, target chain,
\* and the switch when the target differs from the current chain
swapHandler_getWalletBalance(c, p) ==
  IF p.thrown THEN swapHandler_throw(c, p.val)
  ELSE LET c0 == [c EXCEPT !.tk.walletBalance = p.val] IN
  IF p.val.s \in {"", "0"} THEN swapHandler_throw(c0, Error("EVM wallet has zero balance"))
  ELSE IF c.tk.args.fromToken = "" \/ c.tk.args.toToken = ""
       THEN swapHandler_throw(c0, Error("Invalid token addresses provided"))
  ELSE LET targetChain == IF c.tk.args.chain = "none" THEN "base"
                          ELSE toLowerCase(c.tk.args.chain)
           c1 == [c0 EXCEPT !.tk.targetChain = targetChain]
       IN IF targetChain # c.cc
          THEN switchChain(Push(c1, "swapHandler.switchChain"), targetChain)
          ELSE swapHandler_switched(c1)

swapHandler_switchChain(c, p) ==
  IF p.thrown THEN swapHandler_throw(c, p.val) ELSE swapHandler_switched(c)

\* the handler going on without the balance check on the target chain
swapHandler_getWalletBalance2_noCheck(c, p) ==
  IF p.thrown THEN swapHandler_throw(c, p.val)
  ELSE estimateGas(Push([c EXCEPT !.tk.balance = p.val], "swapHandler.estimateGas"))

\* resumed with the balance on the target chain: estimateGas(options)
swapHandler_getWalletBalance2(c, p) ==
  IF p.thrown THEN swapHandler_throw(c, p.val)
  ELSE LET c1 == [c EXCEPT !.tk.balance = p.val] IN
       IF p.val.s \in {"", "0"}
       THEN swapHandler_throw(c1, Error("No balance found on " \o c.tk.targetChain))
       ELSE estimateGas(Push(c1, "swapHandler.estimateGas"))

\* resumed with the estimate: !gasEstimate is true of null and of 0n
swapHandler_estimateGas(c, p) ==
  IF p.thrown THEN swapHandler_throw(c, p.val)
  ELSE LET c1 == [c EXCEPT !.tk.gasEstimate = p.val] IN
       IF p.val.kind = "null" \/ (p.val.kind = "bigint" /\ p.val.n = 0)
       THEN swapHandler_throw(c1, Error("Failed to estimate gas"))
       ELSE swap(Push(c1, "swapHandler.swap"))

\* resumed with the swap's Transaction: the status is read on targetChain
swapHandler_swap(c, p) ==
  IF p.thrown THEN swapHandler_throw(c, p.val)
  ELSE getTransactionStatus(Push([c EXCEPT !.tk.tx = p.val], "swapHandler.getTransactionStatus"),
                            c.tk.targetChain)

\* resumed with the status: the success callback, then the result
swapHandler_getTransactionStatus(c, p) ==
  IF p.thrown THEN swapHandler_throw(c, p.val)
  ELSE Return([c EXCEPT !.tk.cbs =
                 IF c.tk.args.callback
                 THEN Append(@, [text |-> "Swap executed successfully on " \o c.tk.targetChain
                                          \o ". Transaction: " \o c.tk.tx.hash,
                                 status |-> p.val.s])
                 ELSE @],
              c.tk.tx)

(* ------------------ WalletProvider of the browser wallet ---------------- *)

\* what connect() finds in the page it runs in
Pages == {"no window", "no provider", "wallet"}

\* connect, up to its await: the new signing client asks for the addresses
browser_connect(c, page) ==
  IF page = "no window" THEN Throw(c, Error("Window object not found"))
  ELSE IF page = "no provider" THEN Throw(c, Error("No Ethereum provider found"))
  ELSE Issue(c, "browser.connect.requestAddresses", "eth_requestAccounts", "injected", 0)

\* resumed with the addresses: the client is attached to the configuration
\* of the chain that is current now
browser_connect_requestAddresses(c, r) ==
  IF r.ok THEN Return([c EXCEPT !.wc[c.cc] = TRUE], Str(r.val))
  ELSE Throw(c, r.err)

\* getWalletClient: the signing client of the current chain's configuration
browser_getWalletClient(c) ==
  IF c.wc[c.cc] THEN Return(c, Str(c.cc)) ELSE Throw(c, Error("Wallet not connected"))

\* switchChain, up to its await
browser_switchChain(c, chain) ==
  IF ~c.wc[c.cc] THEN Throw(c, Error("Wallet not connected"))
  ELSE Issue([c EXCEPT !.tk.swTarget = chain, !.tk.swClient = c.cc],
             "browser.switchChain.switch", "wallet_switchEthereumChain", c.cc,
             CHAIN_CONFIGS[chain].chainId)

\* resumed with the answer to the switch request: there is no recovery
browser_switchChain_switch(c, code) ==
  LET c1 == [c EXCEPT !.tk.swCodes = Append(@, code)] IN
  IF code = 0 THEN Return([c1 EXCEPT !.cc = c.tk.swTarget], Void)
  ELSE Throw(c1, RpcError(code))

(* --------------------------- BalancesProvider --------------------------- *)

\* the tokens a token list can name, with their decimals
TokenDecimals == [TKA |-> 0, TKB |-> 1]

Pending == [kind |-> "pending"]

\* numbers are kept in tenths: the model's tokens have at most one decimal
\* and its prices are whole numbers, so every product and sum is a multiple
\* of 0.1 and the double arithmetic of the code is exact up to printing

\* Number(formatUnits(balance, decimals))
NumberOfUnits(balance, decimals) == balance * Pow10(1 - decimals)

\* Number(price) for the price strings of the model
NumberOfPrice(price) == IF price = "2" THEN 2 ELSE 0

\* Number.prototype.toString
NumberToString(tenths) ==
  IF tenths % 10 = 0 THEN ToString(tenths \div 10)
  ELSE ToString(tenths \div 10) \o "." \o ToString(tenths % 10)

\* Number.prototype.toFixed(2)
toFixed2(tenths) == ToString(tenths \div 10) \o "." \o ToString(tenths % 10) \o "0"

\* getTokenPrice: the price of the answer's body, '0' when the fetch failed,
\* the response is not OK or the body names no price
getTokenPrice(r) ==
  IF ~r.ok THEN "0"
  ELSE IF ~r.val.ok THEN "0"
  ELSE IF r.val.priceUSD = "" THEN "0"
  ELSE r.val.priceUSD

\* what the price request of a token came to
FetchOutcome(r) ==
  IF ~r.ok THEN "transport error"
  ELSE IF ~r.val.ok THEN "http error"
  ELSE IF r.val.priceUSD = "" THEN "no price"
  ELSE "priced"

\* the TokenBalance built from a token's balance and price
TokenBalance(tok) ==
  LET decimals == TokenDecimals[tok.token]
      value == NumberOfUnits(tok.balance.n, decimals) * NumberOfPrice(tok.price.s)
  IN [symbol |-> tok.token, decimals |-> decimals, balance |-> tok.balance.n,
      price |-> tok.price.s, priceUSD |-> tok.price.s,
      value |-> NumberToString(value), tenths |-> value]

\* a result that keeps the tokens without balance
NonZeroBalances_all(balances) == balances

\* balances.filter(t => t.balance > 0n)
NonZeroBalances(balances) == SelectSeq(balances, LAMBDA b : b.balance > 0)

RECURSIVE SumOfValues(_)
SumOfValues(balances) ==
  IF balances = <<>> THEN 0 ELSE Head(balances).tenths + SumOfValues(Tail(balances))

\* the WalletBalance of a chain whose token balances and prices all arrived
WalletBalance(w) ==
  LET balances == [j \in DOMAIN w.tokens |-> TokenBalance(w.tokens[j])]
      nonZeroBalances == NonZeroBalances(balances)
  IN [kind |-> "WalletBalance", chain |-> w.chain, address |-> Address,
      totalValueUSD |-> toFixed2(SumOfValues(nonZeroBalances)),
      tokens |-> nonZeroBalances]

ChainSettled(w) ==
  /\ w.listed
  /\ \A j \in DOMAIN w.tokens :
       w.tokens[j].balance.kind # "pending" /\ w.tokens[j].price.kind # "pending"

\* the promises that can settle do: a chain's WalletBalance once all its
\* tokens are answered, the aggregate once every chain has its WalletBalance
getWalletBalances_settle(c) ==
  LET wb == [i \in DOMAIN c.tk.wb |->
               IF c.tk.wb[i].result.kind = "undefined" /\ ChainSettled(c.tk.wb[i])
               THEN [c.tk.wb[i] EXCEPT !.result = WalletBalance(c.tk.wb[i])]
               ELSE c.tk.wb[i]]
      c1 == [c EXCEPT !.tk.wb = wb]
  IN IF \A i \in DOMAIN wb : wb[i].result.kind # "undefined"
     THEN Return(c1, [kind |-> "WalletBalances", list |-> [i \in DOMAIN wb |-> wb[i].result]])
     ELSE c1

\* getWalletBalances(chains), up to the awaits: getTokens is requested for
\* every chain
getWalletBalances(c, chains) ==
  getWalletBalances_settle(
    [c EXCEPT !.tk.pc = "getWalletBalances.pending",
              !.tk.wb = [i \in DOMAIN chains |->
                           [chain |-> chains[i], listed |-> FALSE, tokens |-> <<>>,
                            result |-> Void]]])

\* the token list of the i-th chain arrives: balance and price of each of
\* its tokens are requested; a failure rejects the aggregate
getWalletBalances_getTokens(c, i, r) ==
  IF ~r.ok THEN Throw(c, r.err)
  ELSE getWalletBalances_settle(
         [c EXCEPT !.tk.wb[i].listed = TRUE,
                   !.tk.wb[i].tokens = [j \in DOMAIN r.val |->
                                          [token |-> r.val[j], balance |-> Pending,
                                           price |-> Pending, fetch |-> "pending"]]])

\* the balance of the j-th token of the i-th chain arrives; a failure
\* rejects the aggregate
getWalletBalances_getTokenBalance(c, i, j, r) ==
  IF ~r.ok THEN Throw(c, r.err)
  ELSE getWalletBalances_settle([c EXCEPT !.tk.wb[i].tokens[j].balance = BigInt(r.val)])

\* getTokenPrice of the j-th token of the i-th chain returns
getWalletBalances_getTokenPrice(c, i, j, r) ==
  getWalletBalances_settle([c EXCEPT !.tk.wb[i].tokens[j].price = Str(getTokenPrice(r)),
                                     !.tk.wb[i].tokens[j].fetch = FetchOutcome(r)])

(* ----------------------- answers of the environment --------------------- *)

NetworkError == Error("network error")

SwitchAnswers == {0} \cup SwitchErrorCodes
AddChainAnswers == {0} \cup SwitchErrorCodes
AddressAnswers == {Ok(Address), Fail(NetworkError)}
BalanceAnswers == {Ok(b) : b \in 0..MaxBalance} \cup {Fail(NetworkError)}
SendAnswers == {Ok(h) : h \in Hashes} \cup {Fail(Error("insufficient funds"))}
GasAnswers == {Ok(g) : g \in 0..MaxGas} \cup {Fail(NetworkError)}
ReceiptAnswers == {Ok("null"), Ok("success"), Ok("reverted"), Fail(NetworkError)}

\* the route lists the aggregator can answer: up to MaxRoutes distinct routes
RouteLists ==
  {rs \in UNION {[1..n -> 1..MaxRoutes] : n \in 0..MaxRoutes} :
     \A i, j \in DOMAIN rs : i # j => rs[i] # rs[j]}

RoutesAnswers ==
  {Ok([routes |-> rs, tool |-> tl]) : rs \in RouteLists, tl \in {"approval", "swap"}}
    \cup {Fail(NetworkError)}

\* the executions executeRoute can answer
Executions ==
  {[steps |-> <<>>],
   [steps |-> <<[hasExecution |-> FALSE, process |-> <<>>]>>],
   [steps |-> <<[hasExecution |-> TRUE, process |-> <<>>]>>]}
    \cup {[steps |-> <<[hasExecution |-> TRUE,
                        process |-> <<[status |-> st, txHash |-> h]>>]>>] :
            st \in {"", "FAILED", "PENDING", "DONE"}, h \in Hashes}

ExecutionAnswers == {Ok(x) : x \in Executions} \cup {Fail(NetworkError)}

\* the chains a caller asks the balances of, and what the token provider
\* and the price API answer
ChainLists == {<<>>, <<"ethereum">>, <<"base">>, <<"ethereum", "base">>}
TokensAnswers == {Ok(<<>>), Ok(<<"TKA">>), Ok(<<"TKA", "TKB">>), Fail(NetworkError)}
TokenBalanceAnswers == {Ok(b) : b \in 0..MaxTokenBalance} \cup {Fail(NetworkError)}
PriceAnswers ==
  {Fail(NetworkError), Ok([ok |-> FALSE, priceUSD |-> ""]),
   Ok([ok |-> TRUE, priceUSD |-> ""]), Ok([ok |-> TRUE, priceUSD |-> "2"])}

(* ------------------------------ actions --------------------------------- *)

Init ==
  /\ currentChain = [p \in Provs |-> "ethereum"]
  /\ walletClient = [p \in Provs |-> [ch \in Chains |-> p # "browser"]]
  /\ task = [t \in Tasks |-> IdleTask]
  /\ overlap = [t \in Tasks |-> FALSE]

\* the host has taken the outcome of the finished call
HostTakesResult(t) ==
  /\ task[t].pc = "done"
  /\ task' = [task EXCEPT ![t] = IdleTask]
  /\ overlap' = [overlap EXCEPT ![t] = FALSE]
  /\ UNCHANGED <<currentChain, walletClient>>

\* the host calls an operation when the task runs none

Call_switchChain(t) ==
  /\ task[t].pc = "idle"
  /\ \E chain \in Chains :
       Commit(t, switchChain(Begin(t, "switchChain", "shared", NoArgs), chain))

Call_getWalletBalance(t) ==
  /\ task[t].pc = "idle"
  /\ Commit(t, getWalletBalance(Begin(t, "getWalletBalance", "shared", NoArgs)))

Call_getWalletStatus(t) ==
  /\ task[t].pc = "idle"
  /\ Commit(t, getWalletStatus(Begin(t, "getWalletStatus", "shared", NoArgs)))

\* getCurrentChain, getAddress, getPublicClient(chain), getChainConfig(chain)
\* return a field or a table entry
Call_accessor(t) ==
  /\ task[t].pc = "idle"
  /\ \E op \in {"getCurrentChain", "getAddress", "getPublicClient", "getChainConfig"} :
       LET c == Begin(t, op, "shared", NoArgs) IN
       Commit(t, Return(c, Str(IF op = "getCurrentChain" THEN c.cc
                               ELSE IF op = "getAddress" THEN Address ELSE op)))

\* getWalletClient returns the signing client of the current chain or throws
Call_getWalletClient(t) ==
  /\ task[t].pc = "idle"
  /\ LET c == Begin(t, "getWalletClient", "shared", NoArgs) IN
     Commit(t, IF c.wc[c.cc] THEN Return(c, Str(c.cc))
               ELSE Throw(c, Error("Wallet not connected")))

\* connect returns the configured key
Call_connect(t) ==
  /\ task[t].pc = "idle"
  /\ \E key \in {"absent", "malformed", "valid"} :
       Commit(t, Return(Begin(t, "connect", "shared", [NoArgs EXCEPT !.key = key]), Str(key)))

\* data is optional in TransferParams
Call_transfer(t) ==
  /\ task[t].pc = "idle"
  /\ \E chain \in Chains, amount \in Amounts, data \in {"undefined", "0xdead"} :
       Commit(t, transfer(Begin(t, "transfer", "shared",
                                [NoArgs EXCEPT !.chain = chain, !.amount = amount,
                                               !.data = data])))

Call_transferHandler(t) ==
  /\ task[t].pc = "idle"
  /\ \E chain \in Chains, key \in {"absent", "malformed", "valid"} :
       Commit(t, transferHandler(Begin(t, "transferHandler", t,
                                       [NoArgs EXCEPT !.chain = chain, !.key = key])))

Call_swap(t) ==
  /\ task[t].pc = "idle"
  /\ \E chain \in Chains :
       LET c == Begin(t, "swap", "shared", [NoArgs EXCEPT !.chain = chain]) IN
       Commit(t, swap([c EXCEPT !.tk.fn = "swap"]))

\* toAddress is optional in BridgeParams ("" when omitted)
Call_bridge(t) ==
  /\ task[t].pc = "idle"
  /\ \E chain \in Chains, toChain \in Chains, toAddress \in {"", "0xD0"} :
       LET c == Begin(t, "bridge", "shared",
                      [NoArgs EXCEPT !.chain = chain, !.toChain = toChain,
                                     !.toAddress = toAddress]) IN
       Commit(t, swap([c EXCEPT !.tk.fn = "bridge"]))

Call_estimateGas(t) ==
  /\ task[t].pc = "idle"
  /\ \E fn \in {"swap", "bridge"}, chain \in Chains, toChain \in Chains,
        toAddress \in {"", "0xD0"} :
       LET c == Begin(t, "estimateGas", "shared",
                      [NoArgs EXCEPT !.chain = chain,
                                     !.toChain = IF fn = "bridge" THEN toChain ELSE "none",
                                     !.toAddress = IF fn = "bridge" THEN toAddress
                                                   ELSE "0xD0"]) IN
       Commit(t, estimateGas([c EXCEPT !.tk.fn = fn]))

Call_getTransactionStatus(t) ==
  /\ task[t].pc = "idle"
  /\ \E fn \in {"swap", "bridge"}, chain \in Chains :
       LET c == Begin(t, "getTransactionStatus", "shared", [NoArgs EXCEPT !.chain = chain]) IN
       Commit(t, getTransactionStatus([c EXCEPT !.tk.fn = fn], chain))

Call_bridgeHandler(t) ==
  /\ task[t].pc = "idle"
  /\ \E chain \in Chains, toChain \in Chains, key \in {"absent", "malformed", "valid"},
        toAddress \in {"", "0xD0"} :
       LET c == Begin(t, "bridgeHandler", t,
                      [NoArgs EXCEPT !.chain = chain, !.toChain = toChain, !.key = key,
                                     !.toAddress = toAddress]) IN
       Commit(t, bridgeHandler([c EXCEPT !.tk.fn = "bridge"]))

\* options of the swap handler: chain may be omitted or written in capitals,
\* a token may be omitted, the callback may be omitted
Call_swapHandler(t) ==
  /\ task[t].pc = "idle"
  /\ \E chain \in {"none", "ethereum", "base", "BASE"},
        fromToken \in {"", NativeToken}, toToken \in {"", "0xT0"},
        callback \in BOOLEAN, key \in {"absent", "malformed", "valid"} :
       LET c == Begin(t, "swapHandler", t,
                      [NoArgs EXCEPT !.chain = chain, !.fromToken = fromToken,
                                     !.toToken = toToken, !.callback = callback,
                                     !.key = key]) IN
       Commit(t, swapHandler([c EXCEPT !.tk.fn = "swap"]))

\* the environment answers the pending request of task t

SwitchResponse(t) ==
  /\ task[t].pc = "switchChain.switch"
  /\ \E code \in SwitchAnswers : Commit(t, switchChain_switch(Ctx(t), code))

AddChainResponse(t) ==
  /\ task[t].pc = "switchChain.addChain"
  /\ \E code \in AddChainAnswers : Commit(t, switchChain_addChain(Ctx(t), code))

SwitchRetryResponse(t) ==
  /\ task[t].pc = "switchChain.retry"
  /\ \E code \in SwitchAnswers : Commit(t, switchChain_retry(Ctx(t), code))

GetBalanceResponse(t) ==
  /\ task[t].pc = "getWalletBalance.getBalance"
  /\ \E r \in BalanceAnswers : Commit(t, getWalletBalance_getBalance(Answered(Ctx(t), r), r))

TransferAddressesResponse(t) ==
  /\ task[t].pc = "transfer.getAddresses"
  /\ \E r \in AddressAnswers : Commit(t, transfer_getAddresses(Answered(Ctx(t), r), r))

SendTransactionResponse(t) ==
  /\ task[t].pc = "transfer.sendTransaction"
  /\ \E r \in SendAnswers : Commit(t, transfer_sendTransaction(Answered(Ctx(t), r), r))

SwapAddressesResponse(t) ==
  /\ task[t].pc \in {"swap.getAddresses", "bridge.getAddresses"}
  /\ \E r \in AddressAnswers : Commit(t, swap_getAddresses(Answered(Ctx(t), r), r))

SwapRoutesResponse(t) ==
  /\ task[t].pc \in {"swap.getRoutes", "bridge.getRoutes"}
  /\ \E r \in RoutesAnswers : Commit(t, swap_getRoutes(Answered(Ctx(t), r), r))

ExecuteRouteResponse(t) ==
  /\ task[t].pc \in {"swap.executeRoute", "bridge.executeRoute"}
  /\ \E r \in ExecutionAnswers : Commit(t, swap_executeRoute(Answered(Ctx(t), r), r))

EstimateAddressesResponse(t) ==
  /\ task[t].pc = "estimateGas.getAddresses"
  /\ \E r \in AddressAnswers : Commit(t, estimateGas_getAddresses(Answered(Ctx(t), r), r))

EstimateRoutesResponse(t) ==
  /\ task[t].pc = "estimateGas.getRoutes"
  /\ \E r \in RoutesAnswers : Commit(t, estimateGas_getRoutes(Answered(Ctx(t), r), r))

EstimateGasResponse(t) ==
  /\ task[t].pc = "estimateGas.estimateGas"
  /\ \E r \in GasAnswers : Commit(t, estimateGas_estimateGas(Answered(Ctx(t), r), r))

ReceiptResponse(t) ==
  /\ task[t].pc = "getTransactionStatus.getTransactionReceipt"
  /\ \E r \in ReceiptAnswers : Commit(t, getTransactionStatus_receipt(Answered(Ctx(t), r), r))

\* the awaited promise of a callee has settled: the caller resumes

Awaiting(t, sites) == task[t].pc = "await" /\ Head(task[t].stack) \in sites

Resume_getWalletStatus(t) ==
  /\ Awaiting(t, {"getWalletStatus.getWalletBalance"})
  /\ Commit(t, getWalletStatus_resume(Pop(Ctx(t)), task[t].pending))

Resume_transfer(t) ==
  /\ Awaiting(t, {"transfer.switchChain"})
  /\ Commit(t, transfer_resume(Pop(Ctx(t)), task[t].pending))

Resume_transferHandler(t) ==
  /\ Awaiting(t, {"transferHandler.transfer"})
  /\ Commit(t, transferHandler_resume(Pop(Ctx(t)), task[t].pending))

Resume_bridgeHandler(t) ==
  /\ Awaiting(t, {"bridgeHandler.bridge"})
  /\ Commit(t, bridgeHandler_resume(Pop(Ctx(t)), task[t].pending))

SwapHandlerSites ==
  {"swapHandler.getWalletStatus", "swapHandler.getWalletBalance", "swapHandler.switchChain",
   "swapHandler.getWalletBalance2", "swapHandler.estimateGas", "swapHandler.swap",
   "swapHandler.getTransactionStatus"}

swapHandler_resume(c, site, p) ==
  CASE site = "swapHandler.getWalletStatus" -> swapHandler_getWalletStatus(c, p)
    [] site = "swapHandler.getWalletBalance" -> swapHandler_getWalletBalance(c, p)
    [] site = "swapHandler.switchChain" -> swapHandler_switchChain(c, p)
    [] site = "swapHandler.getWalletBalance2" -> swapHandler_getWalletBalance2(c, p)
    [] site = "swapHandler.estimateGas" -> swapHandler_estimateGas(c, p)
    [] site = "swapHandler.swap" -> swapHandler_swap(c, p)
    [] site = "swapHandler.getTransactionStatus" -> swapHandler_getTransactionStatus(c, p)

Resume_swapHandler(t) ==
  /\ Awaiting(t, SwapHandlerSites)
  /\ Commit(t, swapHandler_resume(Pop(Ctx(t)), Head(task[t].stack), task[t].pending))

\* calls on the provider of the browser wallet; connected records whether a
\* connect() had succeeded on it when the call was made
BrowserBegin(t, op) ==
  LET c == Begin(t, op, "browser", NoArgs) IN
  [c EXCEPT !.tk.connected = \E ch \in Chains : c.wc[ch]]

Browser_connect(t) ==
  /\ task[t].pc = "idle"
  /\ \E page \in Pages : Commit(t, browser_connect(BrowserBegin(t, "browser.connect"), page))

Browser_getWalletClient(t) ==
  /\ task[t].pc = "idle"
  /\ Commit(t, browser_getWalletClient(BrowserBegin(t, "browser.getWalletClient")))

Browser_switchChain(t) ==
  /\ task[t].pc = "idle"
  /\ \E chain \in Chains :
       Commit(t, browser_switchChain(BrowserBegin(t, "browser.switchChain"), chain))

\* getCurrentChain and getPublicClient(chain)
Browser_accessor(t) ==
  /\ task[t].pc = "idle"
  /\ \E op \in {"browser.getCurrentChain", "browser.getPublicClient"} :
       LET c == BrowserBegin(t, op) IN
       Commit(t, Return(c, Str(IF op = "browser.getCurrentChain" THEN c.cc ELSE op)))

Browser_RequestAddressesResponse(t) ==
  /\ task[t].pc = "browser.connect.requestAddresses"
  /\ \E r \in AddressAnswers :
       Commit(t, browser_connect_requestAddresses(Answered(Ctx(t), r), r))

Browser_SwitchResponse(t) ==
  /\ task[t].pc = "browser.switchChain.switch"
  /\ \E code \in SwitchAnswers : Commit(t, browser_switchChain_switch(Ctx(t), code))

\* BalancesProvider.getWalletBalances and the answers to its requests, which
\* arrive in any order

Call_getWalletBalances(t) ==
  /\ task[t].pc = "idle"
  /\ \E chains \in ChainLists :
       Commit(t, getWalletBalances(Begin(t, "getWalletBalances", "shared", NoArgs), chains))

TokensResponse(t) ==
  /\ task[t].pc = "getWalletBalances.pending"
  /\ \E i \in DOMAIN task[t].wb, r \in TokensAnswers :
       /\ ~task[t].wb[i].listed
       /\ Commit(t, getWalletBalances_getTokens(Answered(Ctx(t), r), i, r))

TokenBalanceResponse(t) ==
  /\ task[t].pc = "getWalletBalances.pending"
  /\ \E i \in DOMAIN task[t].wb, r \in TokenBalanceAnswers :
       \E j \in DOMAIN task[t].wb[i].tokens :
         /\ task[t].wb[i].tokens[j].balance.kind = "pending"
         /\ Commit(t, getWalletBalances_getTokenBalance(Answered(Ctx(t), r), i, j, r))

\* the answer of the price API is kept with the token, not among the answers
\* that can reject the aggregate
TokenPriceResponse(t) ==
  /\ task[t].pc = "getWalletBalances.pending"
  /\ \E i \in DOMAIN task[t].wb, r \in PriceAnswers :
       \E j \in DOMAIN task[t].wb[i].tokens :
         /\ task[t].wb[i].tokens[j].price.kind = "pending"
         /\ Commit(t, getWalletBalances_getTokenPrice(Ctx(t), i, j, r))

(* --------------------------- specifications ----------------------------- *)

Step(t) ==
  \/ HostTakesResult(t)
  \/ Call_switchChain(t)
  \/ Call_getWalletBalance(t)
  \/ Call_getWalletStatus(t)
  \/ Call_accessor(t)
  \/ Call_getWalletClient(t)
  \/ Call_connect(t)
  \/ Call_transfer(t)
  \/ Call_transferHandler(t)
  \/ Call_swap(t)
  \/ Call_bridge(t)
  \/ Call_estimateGas(t)
  \/ Call_getTransactionStatus(t)
  \/ Call_bridgeHandler(t)
  \/ Call_swapHandler(t)
  \/ SwitchResponse(t)
  \/ AddChainResponse(t)
  \/ SwitchRetryResponse(t)
  \/ GetBalanceResponse(t)
  \/ TransferAddressesResponse(t)
  \/ SendTransactionResponse(t)
  \/ SwapAddressesResponse(t)
  \/ SwapRoutesResponse(t)
  \/ ExecuteRouteResponse(t)
  \/ EstimateAddressesResponse(t)
  \/ EstimateRoutesResponse(t)
  \/ EstimateGasResponse(t)
  \/ ReceiptResponse(t)
  \/ Resume_getWalletStatus(t)
  \/ Resume_transfer(t)
  \/ Resume_transferHandler(t)
  \/ Resume_bridgeHandler(t)
  \/ Resume_swapHandler(t)

\* one call chain at a time: the host awaits each operation before the next
Next == Step("t1")

Spec == Init /\ [][Next]_vars

\* two call chains interleaved on the shared provider (the transfers all of
\* one amount, without data)
ConcStep(t) ==
  \/ HostTakesResult(t)
  \/ Call_switchChain(t)
  \/ (Call_transfer(t) /\ task'[t].args.amount = "1" /\ task'[t].args.data = "undefined")
  \/ SwitchResponse(t)
  \/ AddChainResponse(t)
  \/ SwitchRetryResponse(t)
  \/ TransferAddressesResponse(t)
  \/ SendTransactionResponse(t)
  \/ Resume_transfer(t)

ConcNext == \E t \in Tasks : ConcStep(t)

ConcSpec == Init /\ [][ConcNext]_vars

\* the browser wallet's provider, used by two call chains
BrowserStep(t) ==
  \/ HostTakesResult(t)
  \/ Browser_connect(t)
  \/ Browser_getWalletClient(t)
  \/ Browser_switchChain(t)
  \/ Browser_accessor(t)
  \/ Browser_RequestAddressesResponse(t)
  \/ Browser_SwitchResponse(t)

BrowserNext == \E t \in Tasks : BrowserStep(t)

BrowserSpec == Init /\ [][BrowserNext]_vars

\* one call of getWalletBalances at a time
BalancesStep(t) ==
  \/ HostTakesResult(t)
  \/ Call_getWalletBalances(t)
  \/ TokensResponse(t)
  \/ TokenBalanceResponse(t)
  \/ TokenPriceResponse(t)

BalancesNext == BalancesStep("t1")

BalancesSpec == Init /\ [][BalancesNext]_vars

(* ------------------------------- claims --------------------------------- *)

\* the requests of task record tk that went to the signing client for a switch
SwitchRequests(tk) ==
  SelectSeq(tk.net, LAMBDA e : e.rq \in {"wallet_switchEthereumChain", "wallet_addEthereumChain"})

RequestNames(log) == [i \in DOMAIN log |-> log[i].rq]

Requests(tk, rq) == SelectSeq(tk.net, LAMBDA e : e.rq = rq)

InSwitchChain(tk) == tk.pc \in {"switchChain.switch", "switchChain.addChain", "switchChain.retry"}

Done(tk, op) == tk.op = op /\ tk.pc = "done"

\* C1: a first switch request failing with 4902 is followed by exactly one
\* add-chain request and, when that succeeds, exactly one more switch
\* request, and a failure of either propagates; a first switch request
\* failing with another code is followed by no request at all and its error
\* propagates.
C1_SwitchChainRecovery ==
  \A t \in Tasks :
    LET tk == task[t]
        reqs == RequestNames(SwitchRequests(tk))
        codes == tk.swCodes
        sw == "wallet_switchEthereumChain"
        add == "wallet_addEthereumChain"
    IN /\ (codes # <<>> /\ codes[1] = ChainUnknown) =>
            /\ Len(reqs) >= 2 /\ reqs[1] = sw /\ reqs[2] = add
            /\ Len(reqs) <= 3
            /\ (Len(reqs) = 3 => reqs[3] = sw /\ codes[2] = 0)
            /\ (Len(codes) >= 2 /\ codes[2] = 0 => Len(reqs) = 3)
            /\ (Len(codes) >= 2 /\ codes[2] # 0 =>
                  /\ reqs = <<sw, add>> /\ ~InSwitchChain(tk)
                  /\ (Done(tk, "switchChain") =>
                        tk.outcome = "threw" /\ tk.retval = RpcError(codes[2])))
            /\ (Len(codes) = 3 /\ codes[3] # 0 =>
                  /\ ~InSwitchChain(tk)
                  /\ (Done(tk, "switchChain") =>
                        tk.outcome = "threw" /\ tk.retval = RpcError(codes[3])))
       /\ (codes # <<>> /\ codes[1] \notin {0, ChainUnknown}) =>
            /\ reqs = <<sw>> /\ ~InSwitchChain(tk)
            /\ (Done(tk, "switchChain") =>
                  tk.outcome = "threw" /\ tk.retval = RpcError(codes[1]))

\* a switchChain call that recovered: 4902, chain added, retried switch accepted
C1_Witness ==
  \E t \in Tasks :
    /\ Done(task[t], "switchChain") /\ task[t].outcome = "returned"
    /\ task[t].swCodes = <<ChainUnknown, 0, 0>>
    /\ Len(SwitchRequests(task[t])) = 3

\* the step of task t, running on provider p, is the end of a successful
\* switchChain call
SwitchChainSucceeds(t, p) ==
  /\ task[t].prov = p
  /\ task[t].pc \in {"switchChain.switch", "switchChain.retry"}
  /\ \/ task'[t].pc = "done" /\ task'[t].outcome = "returned"
     \/ task'[t].pc = "await" /\ ~task'[t].pending.thrown

\* a handler constructs the provider instance p (its own) when it is called
Constructs(p) ==
  /\ p \in Tasks
  /\ task[p].pc = "idle"
  /\ task'[p].op \in {"transferHandler", "bridgeHandler", "swapHandler"}

\* C2: a provider's currentChain changes only in the last step of a
\* switchChain call that succeeds, and is then that call's target; failed
\* switchChain calls and all other operations leave it as it was.
C2_CurrentChainFrame ==
  [][\A p \in Provs :
       /\ (currentChain'[p] # currentChain[p] /\ ~Constructs(p)) =>
            \E t \in Tasks : SwitchChainSucceeds(t, p)
       /\ \A t \in Tasks :
            SwitchChainSucceeds(t, p) => currentChain'[p] = task[t].swTarget]_vars

\* a successful switchChain call has moved the shared provider to base
C2_Witness ==
  \E t \in Tasks :
    /\ Done(task[t], "switchChain") /\ task[t].outcome = "returned"
    /\ task[t].swTarget = "base" /\ task[t].net[1].cur = "ethereum"
    /\ currentChain["shared"] = "base"

\* C3: a transaction submitted after switchChain(c) succeeded goes through
\* the signing client of chain c.
C3_SendThroughSwitchedChain ==
  \A t \in Tasks :
    \A i \in DOMAIN task[t].net :
      task[t].net[i].rq = "eth_sendTransaction" => task[t].net[i].via = task[t].swTarget

\* the first process entry of the first execution step, in the claim's words
ProcessAbsent(execution) ==
  \/ execution.steps = <<>>
  \/ ~execution.steps[1].hasExecution
  \/ execution.steps[1].process = <<>>

\* C4: swap and bridge: an empty route list fails with 'No routes found'
\* without an execution; a non-empty list has its first route, and no other,
\* executed exactly once, and the call fails with 'Transaction failed' when
\* the first process entry is absent, has no status or is FAILED, and
\* returns a Transaction otherwise.
C4_RouteOutcome ==
  \A t \in Tasks :
    LET tk == task[t]
        execs == Requests(tk, "executeRoute")
    IN /\ Len(execs) <= 1
       /\ (tk.op \in {"swap", "bridge"} /\ tk.pc = "done" /\ tk.tool # "none") =>
            IF tk.routes = <<>>
            THEN tk.outcome = "threw" /\ tk.retval = Error("No routes found") /\ execs = <<>>
            ELSE /\ Len(execs) = 1
                 /\ execs[1].arg = tk.routes[1]
                 /\ ("steps" \in DOMAIN tk.execution =>
                       IF \/ ProcessAbsent(tk.execution)
                          \/ tk.execution.steps[1].process[1].status \in {"", "FAILED"}
                       THEN tk.outcome = "threw" /\ tk.retval = Error("Transaction failed")
                       ELSE tk.outcome = "returned" /\ tk.retval.kind = "Transaction")

\* a swap that returned a Transaction after the aggregator offered two routes
C4_Witness ==
  \E t \in Tasks :
    /\ Done(task[t], "swap") /\ task[t].outcome = "returned"
    /\ Len(task[t].routes) = 2
    /\ task[t].retval.kind = "Transaction"

\* C5: no handler lets an exception reach the host.
C5_HandlersNeverThrow ==
  \A t \in Tasks :
    (task[t].op \in {"transferHandler", "bridgeHandler", "swapHandler"} /\ task[t].pc = "done")
      => task[t].outcome = "returned"

\* C6: when a step of swapAction.handler throws, the handler returns false
\* and the callback, if supplied, is invoked exactly once, with the error
\* payload; the success callback is not invoked as well.
C6_SwapHandlerFailure ==
  \A t \in Tasks :
    LET tk == task[t] IN
    (Done(tk, "swapHandler") /\ tk.raised # <<>>) =>
      /\ tk.outcome = "returned"
      /\ tk.retval = False
      /\ Len(tk.raised) = 1
      /\ tk.cbs = IF tk.args.callback
                  THEN <<[text |-> "Swap failed: " \o tk.raised[1],
                          error |-> tk.raised[1], status |-> "error"]>>
                  ELSE <<>>

\* the status read, the last step of the handler, failed with a callback supplied
C6_Witness ==
  \E t \in Tasks :
    /\ Done(task[t], "swapHandler") /\ task[t].args.callback
    /\ task[t].raised = <<NetworkError.msg>>
    /\ Requests(task[t], "eth_getTransactionReceipt") # <<>>

\* C7: a swap request with both tokens absent issues no network request.
C7_ValidationBeforeNetwork ==
  \A t \in Tasks :
    (task[t].op = "swapHandler" /\ task[t].args.fromToken = "" /\ task[t].args.toToken = "")
      => task[t].net = <<>>

\* C8: estimateGas never throws; it returns the RPC's estimate when the
\* addresses, the routes (at least one) and the estimation all succeeded, and
\* null in every other case.
C8_EstimateGasNeverThrows ==
  \A t \in Tasks :
    LET tk == task[t] IN
    /\ Done(tk, "estimateGas") =>
         /\ tk.outcome = "returned"
         /\ IF tk.ans = <<TRUE, TRUE, TRUE>> /\ Len(tk.routes) > 0
            THEN tk.retval = BigInt(tk.last.val)
            ELSE tk.retval = Null
    /\ (tk.pc = "await" /\ Head(tk.stack) = "swapHandler.estimateGas") =>
         /\ ~tk.pending.thrown
         /\ tk.pending.val.kind \in {"null", "bigint"}

\* a gas estimation that failed at the RPC and was answered with null
C8_Witness ==
  \E t \in Tasks :
    /\ Done(task[t], "estimateGas") /\ task[t].fn = "bridge"
    /\ task[t].ans = <<TRUE, TRUE, FALSE>>
    /\ task[t].retval = Null

\* C9: switchChain(target) with target the current chain issues no switch
\* request.
C9_SwitchToCurrentIsNoOp ==
  \A t \in Tasks :
    LET sw == Requests(task[t], "wallet_switchEthereumChain") IN
    sw # <<>> => sw[1].cur # task[t].swTarget

\* C9 as amended: swapAction.handler issues no switch request when its
\* target chain is the provider's current chain, and currentChain is then
\* unchanged; switchChain itself always issues a switch request, also for
\* the current chain, and after its success currentChain is the target.
C9_NoOpOnlyInSwapHandler ==
  \A t \in Tasks :
    LET tk == task[t]
        sw == Requests(tk, "wallet_switchEthereumChain")
    IN /\ tk.op = "swapHandler" =>
            /\ \A i \in DOMAIN sw : sw[i].cur # tk.swTarget /\ tk.swTarget = tk.targetChain
            /\ (tk.targetChain = "ethereum" =>
                  sw = <<>> /\ currentChain[tk.prov] = "ethereum")
       /\ (tk.op = "switchChain" /\ tk.pc # "idle") =>
            /\ sw # <<>>
            /\ (tk.outcome = "returned" => currentChain[tk.prov] = tk.swTarget)

\* a swap handled on ethereum, the chain of the handler's new provider,
\* went through without any switch request
C9_Witness ==
  \E t \in Tasks :
    /\ Done(task[t], "swapHandler") /\ task[t].outcome = "returned"
    /\ task[t].retval.kind = "Transaction"
    /\ task[t].targetChain = "ethereum"
    /\ Requests(task[t], "wallet_switchEthereumChain") = <<>>

\* C10: a transfer no other task interleaved with submits its transaction
\* while currentChain is the chain it switched to; interleaved with another
\* chain-switching call it can submit while currentChain is a different chain
\* (the witness).
C10_SequentialChainStable ==
  \A t \in Tasks :
    LET send == Requests(task[t], "eth_sendTransaction") IN
    (task[t].op = "transfer" /\ send # <<>> /\ ~overlap[t]) =>
      send[1].cur = task[t].args.chain

\* a transfer submitting while currentChain is not the chain it switched to
C10_Witness ==
  \E t \in Tasks :
    LET send == Requests(task[t], "eth_sendTransaction") IN
    /\ task[t].op = "transfer" /\ send # <<>>
    /\ task[t].swCodes # <<>> /\ task[t].swCodes[Len(task[t].swCodes)] = 0
    /\ send[1].cur # task[t].args.chain

\* C12: getWalletStatus never throws: when the balance was read it returns
\* the connected status with the formatted balance, the account address and
\* the current chain; when reading the balance failed it returns the status
\* {isConnected: false, balance: '0', address: null}; currentChain and the
\* signing clients of the provider are what they were when it was called.
C12_WalletStatusNeverThrows ==
  \A t \in Tasks :
    LET tk == task[t] IN
    (tk.op = "getWalletStatus" /\ tk.pc # "idle") =>
      /\ tk.net # <<>>
      /\ currentChain[tk.prov] = tk.net[1].cur
      /\ \A ch \in Chains : walletClient[tk.prov][ch]
      /\ tk.pc = "done" =>
           /\ tk.outcome = "returned"
           /\ tk.retval.kind = "WalletStatus"
           /\ IF tk.last.ok
              THEN /\ tk.retval.isConnected
                   /\ tk.retval.balance = formatUnits(tk.last.val)
                   /\ tk.retval.address = Address
                   /\ tk.retval.chain = currentChain[tk.prov]
              ELSE tk.retval = [kind |-> "WalletStatus", isConnected |-> FALSE,
                                balance |-> "0", address |-> "null"]

\* the balance request of a status query failed and the degraded status was
\* returned
C12_Witness ==
  \E t \in Tasks :
    /\ Done(task[t], "getWalletStatus")
    /\ task[t].ans = <<FALSE>>
    /\ ~task[t].retval.isConnected

\* C15: getTransactionStatus(hash, chain) of SwapAction and of BridgeAction
\* issues exactly one receipt request, to the read-only client of the given
\* chain, and returns 'pending' when the client answers with no receipt,
\* 'success' for a receipt whose status is success and 'failed' for any
\* other receipt; the absent receipt is a return value, not an error.
C15_TransactionStatus ==
  \A t \in Tasks :
    LET tk == task[t] IN
    (tk.op = "getTransactionStatus" /\ tk.pc # "idle") =>
      /\ RequestNames(tk.net) = <<"eth_getTransactionReceipt">>
      /\ tk.net[1].via = tk.args.chain
      /\ (tk.pc = "done" /\ tk.last.ok) =>
           /\ tk.outcome = "returned"
           /\ tk.retval = Str(CASE tk.last.val = "null" -> "pending"
                                [] tk.last.val = "success" -> "success"
                                [] OTHER -> "failed")

\* a status query of BridgeAction answered with no receipt returned 'pending'
C15_Witness ==
  \E t \in Tasks :
    /\ Done(task[t], "getTransactionStatus") /\ task[t].fn = "bridge"
    /\ task[t].last = Ok("null")
    /\ task[t].retval = Str("pending")

\* C16: a transfer issues its send at most once and only after its chain
\* switch has completed successfully, as the last request of the call; when
\* the switch fails the call fails without a send; an error of the send
\* surfaces as an error with the message 'Transfer failed: ' followed by the
\* message of the send's error.
C16_TransferStepsInOrder ==
  \A t \in Tasks :
    LET tk == task[t]
        send == Requests(tk, "eth_sendTransaction")
    IN tk.op \in {"transfer", "transferHandler"} =>
         /\ Len(send) <= 1
         /\ send # <<>> =>
              /\ tk.swCodes # <<>> /\ tk.swCodes[Len(tk.swCodes)] = 0
              /\ tk.net[Len(tk.net)].rq = "eth_sendTransaction"
              /\ Requests(tk, "wallet_switchEthereumChain") # <<>>
         /\ (tk.pc = "done" /\ tk.swCodes # <<>> /\ tk.swCodes[Len(tk.swCodes)] # 0) =>
              send = <<>> /\ tk.outcome = "threw"
         /\ (tk.pc = "done" /\ send # <<>> /\ ~tk.last.ok) =>
              /\ tk.outcome = "threw"
              /\ tk.retval = Error("Transfer failed: " \o tk.last.err.msg)

\* a transfer whose send was refused after the recovery path of the switch
C16_Witness ==
  \E t \in Tasks :
    /\ Done(task[t], "transfer")
    /\ task[t].swCodes = <<ChainUnknown, 0, 0>>
    /\ Len(Requests(task[t], "eth_sendTransaction")) = 1
    /\ task[t].retval = Error("Transfer failed: insufficient funds")

\* C13: a transfer that succeeded returns a Transaction whose `to` is
\* toAddress, whose value is amount x 10^18 (mant x 10^exp compared with
\* (int x 10^digits + frac) x 10^(18 - digits)), whose data is the data passed, whose `from` is
\* the address of the signing account and whose hash is the non-empty hash
\* the send answered with; to, value and data are those handed to the send.
C13_TransferEchoesSubmitted ==
  \A t \in Tasks :
    LET tk == task[t]
        d == Decimal(tk.args.amount)
    IN (Done(tk, "transfer") /\ tk.outcome = "returned") =>
         /\ tk.retval.kind = "Transaction"
         /\ tk.retval.to = tk.args.toAddress
         /\ LET n == d.int * Pow10(d.digits) + d.frac
                k == (18 - d.digits) - tk.retval.value.exp
            IN IF k <= 0 THEN tk.retval.value.mant * Pow10(0 - k) = n
               ELSE k < 9 /\ tk.retval.value.mant = n * Pow10(k)
         /\ tk.retval.data = tk.args.data
         /\ tk.retval.from = Address
         /\ tk.last.ok /\ tk.retval.hash = tk.last.val /\ tk.retval.hash # ""
         /\ tk.sent.to = tk.retval.to
         /\ tk.sent.value = tk.retval.value
         /\ tk.sent.data = tk.retval.data
         /\ tk.sent.account = tk.retval.from

\* a transfer of 1.250 with call data succeeded
C13_Witness ==
  \E t \in Tasks :
    /\ Done(task[t], "transfer") /\ task[t].outcome = "returned"
    /\ task[t].args.amount = "1.250" /\ task[t].args.data = "0xdead"
    /\ task[t].retval.value = [kind |-> "bigint", mant |-> 125, exp |-> 16]

\* C14: the destination address in the route request of BridgeAction.bridge
\* and of BridgeAction.estimateGas is params.toAddress when one was given
\* and the first address of the signing account when it was omitted: in both
\* operations the same function of the parameters.
C14_BridgeDestination ==
  \A t \in Tasks :
    LET tk == task[t] IN
    (tk.fn = "bridge" /\ tk.op \in {"bridge", "estimateGas", "bridgeHandler"}
       /\ Requests(tk, "getRoutes") # <<>>) =>
      /\ Len(Requests(tk, "getRoutes")) = 1
      /\ tk.routeReq.fromAddress = Address
      /\ tk.routeReq.toAddress = IF tk.args.toAddress = "" THEN Address
                                 ELSE tk.args.toAddress

\* estimateGas of BridgeAction asked for routes with the destination omitted
C14_Witness ==
  \E t \in Tasks :
    /\ task[t].op = "estimateGas" /\ task[t].fn = "bridge"
    /\ task[t].args.toAddress = ""
    /\ Requests(task[t], "getRoutes") # <<>>
    /\ task[t].routeReq.toAddress = Address

\* the requests a successful estimateGas and the swap up to its execution
\* put on the log
EstimateThenExecute ==
  <<"eth_accounts", "getRoutes", "eth_estimateGas", "eth_accounts", "getRoutes", "executeRoute">>

\* C17: swapAction.handler asks the aggregator to execute a route at most
\* once, and when it does: the status read was connected, the first balance
\* read was non-zero, both tokens are present, currentChain is the target
\* chain (after a successful switch when the target is not the chain of the
\* new provider), the balance read on the target chain was non-zero and the
\* gas estimate is a number; these reads were requested in that order
\* before the execution.
C17_ExecuteOnlyAfterChecks ==
  \A t \in Tasks :
    LET tk == task[t]
        rq == RequestNames(tk.net)
        execs == Requests(tk, "executeRoute")
    IN tk.op = "swapHandler" =>
         /\ Len(execs) <= 1
         /\ execs # <<>> =>
              LET n == CHOOSE i \in DOMAIN rq : rq[i] = "executeRoute" IN
              /\ tk.walletStatus.isConnected
              /\ tk.walletBalance.s \notin {"", "0"}
              /\ tk.args.fromToken # "" /\ tk.args.toToken # ""
              /\ execs[1].cur = tk.targetChain
              /\ tk.targetChain # "ethereum" =>
                   tk.swCodes # <<>> /\ tk.swCodes[Len(tk.swCodes)] = 0
              /\ tk.balance.s \notin {"", "0"}
              /\ tk.gasEstimate.kind = "bigint"
              /\ n >= 9
              /\ SubSeq(rq, 1, 2) = <<"eth_getBalance", "eth_getBalance">>
              /\ \A i \in 3..(n - 7) :
                   rq[i] \in {"wallet_switchEthereumChain", "wallet_addEthereumChain"}
              /\ tk.net[n - 6].cur = tk.targetChain
              /\ SubSeq(rq, n - 6, n) = <<"eth_getBalance">> \o EstimateThenExecute

\* the handler reached the execution on base after the recovery path of the
\* chain switch
C17_Witness ==
  \E t \in Tasks :
    /\ task[t].op = "swapHandler"
    /\ Requests(task[t], "executeRoute") # <<>>
    /\ task[t].swCodes = <<ChainUnknown, 0, 0>>
    /\ task[t].targetChain = "base"

\* C18: swapAction.handler works on one chain: the target chain is
\* options.chain in lower case, or base when options.chain is omitted; the
\* route requests, the gas estimation, the execution and the status read
\* are all for the target chain; and with options.chain omitted and every
\* request answered successfully the gas estimation asks the aggregator
\* for a route (on base) instead of failing before any route request.
C18_OneChainThroughout ==
  \A t \in Tasks :
    LET tk == task[t] IN
    tk.op = "swapHandler" =>
      /\ tk.targetChain # "none" =>
           tk.targetChain = IF tk.args.chain = "none" THEN "base"
                            ELSE toLowerCase(tk.args.chain)
      /\ Requests(tk, "getRoutes") # <<>> =>
           /\ tk.routeReq.fromChainId = CHAIN_CONFIGS[tk.targetChain].chainId
           /\ tk.routeReq.toChainId = CHAIN_CONFIGS[tk.targetChain].chainId
      /\ \A i \in DOMAIN tk.net :
           /\ tk.net[i].rq \in {"eth_estimateGas", "eth_getTransactionReceipt"} =>
                tk.net[i].via = tk.targetChain
           /\ tk.net[i].rq \in {"getRoutes", "eth_estimateGas", "executeRoute"} =>
                tk.net[i].cur = tk.targetChain
      /\ (tk.pc = "done" /\ tk.args.chain = "none"
            /\ tk.raised = <<"Failed to estimate gas">>
            /\ \A i \in DOMAIN tk.ans : tk.ans[i]) =>
           Requests(tk, "getRoutes") # <<>>

\* C19: on the browser wallet's provider, a getWalletClient or switchChain
\* called after a connect() has succeeded does not fail with 'Wallet not
\* connected'.
C19_StaysConnected ==
  \A t \in Tasks :
    LET tk == task[t] IN
    (tk.op \in {"browser.getWalletClient", "browser.switchChain"}
       /\ tk.pc = "done" /\ tk.connected) =>
      ~(tk.outcome = "threw" /\ tk.retval = Error("Wallet not connected"))

\* the tokens of a chain's list, in the list's order, whose balance answer
\* was greater than zero
TokensWithBalance(w) ==
  LET held == SelectSeq(w.tokens, LAMBDA tok : tok.balance.n > 0)
  IN [j \in DOMAIN held |-> held[j].token]

\* C11: getWalletBalances returns, for every requested chain, exactly the
\* tokens of the chain's list whose balance is greater than zero; a token
\* whose price request failed (transport error or non-OK response) is among
\* them when its balance is non-zero, with price '0' and value 0, and every
\* other token has the price of its own answer; the call fails only when a
\* token-list or balance request failed, never for a price request.
C11_NonZeroTokensOnly ==
  \A t \in Tasks :
    LET tk == task[t] IN
    Done(tk, "getWalletBalances") =>
      /\ (\A k \in DOMAIN tk.ans : tk.ans[k]) <=> tk.outcome = "returned"
      /\ tk.outcome = "returned" =>
           /\ tk.retval.kind = "WalletBalances"
           /\ DOMAIN tk.retval.list = DOMAIN tk.wb
           /\ \A i \in DOMAIN tk.wb :
                LET res == tk.retval.list[i]
                    w == tk.wb[i]
                IN /\ res.chain = w.chain
                   /\ [j \in DOMAIN res.tokens |-> res.tokens[j].symbol] = TokensWithBalance(w)
                   /\ \A j \in DOMAIN res.tokens : res.tokens[j].balance > 0
                   /\ \A j \in DOMAIN res.tokens :
                        \E m \in DOMAIN w.tokens :
                          /\ w.tokens[m].token = res.tokens[j].symbol
                          /\ res.tokens[j].balance = w.tokens[m].balance.n
                          /\ IF w.tokens[m].fetch = "priced"
                             THEN res.tokens[j].price = "2"
                             ELSE res.tokens[j].price = "0" /\ res.tokens[j].value = "0"

\* two chains were asked for; on one of them the price request of a token
\* with a balance failed in transport, the other token has its price, and
\* both are returned
C11_Witness ==
  \E t \in Tasks :
    /\ Done(task[t], "getWalletBalances") /\ task[t].outcome = "returned"
    /\ Len(task[t].wb) = 2
    /\ \E i \in DOMAIN task[t].wb :
         /\ Len(task[t].wb[i].tokens) = 2
         /\ task[t].wb[i].tokens[1].fetch = "transport error"
         /\ Len(task[t].retval.list[i].tokens) = 2
         /\ task[t].retval.list[i].tokens[1].value = "0"
         /\ task[t].retval.list[i].tokens[2].price = "2"

====
